---- MODULE Spec2Model ----
(***************************************************************************)
(* Model of the Bytes value object of shie1/bytes: the binary-only class   *)
(* of src/src/index.ts (the "simpler variant") and the binary/decimal      *)
(* class listed in src/README.md (the "richer variant").                   *)
(*                                                                         *)
(* A JavaScript number is an IEEE 754 binary64 value.  It is modelled here *)
(* exactly: a finite number is sign * m * 2^e with an odd natural m of at  *)
(* most 53 bits, kept as a little-endian sequence of 15-bit limbs so that  *)
(* every intermediate result fits the model checker's integers.            *)
(***************************************************************************)
EXTENDS Integers, Sequences, FiniteSets, TLC

----------------------------------------------------------------------------
(* Natural numbers of any size: little-endian limb sequences, no leading   *)
(* zero limb, zero is << >>.                                               *)

LimbBits == 5 * 3
LimbBase == 2 ^ LimbBits

Max(a, b) == IF a >= b THEN a ELSE b
Min(a, b) == IF a <= b THEN a ELSE b

(* The operators on limb sequences work on a range lo..hi of limbs by halves, *)
(* the carry, borrow or remainder passing from one half to the other.  A      *)
(* value that is used more than once is passed on as an argument.             *)

Limb(a, i) == IF i <= Len(a) THEN a[i] ELSE 0

BTrim(a) ==
    IF a = << >> \/ a[Len(a)] # 0 THEN a
    ELSE LET nz == {i \in 1..Len(a) : a[i] # 0}
         IN  IF nz = {} THEN << >>
             ELSE SubSeq(a, 1, CHOOSE i \in nz : \A j \in nz : j <= i)

RECURSIVE BFromNat(_)
BFromNat(n) == IF n = 0 THEN << >> ELSE <<n % LimbBase>> \o BFromNat(n \div LimbBase)

RECURSIVE BCmpIn(_, _, _, _)
BCmpIn(a, b, lo, hi) ==
    IF lo = hi THEN (IF a[lo] > b[lo] THEN 1 ELSE IF a[lo] < b[lo] THEN -1 ELSE 0)
    ELSE LET mid == (lo + hi) \div 2
             top == BCmpIn(a, b, mid + 1, hi)
         IN  IF top # 0 THEN top ELSE BCmpIn(a, b, lo, mid)

BCmp(a, b) ==
    IF Len(a) > Len(b) THEN 1
    ELSE IF Len(a) < Len(b) THEN -1
    ELSE IF a = << >> THEN 0
    ELSE BCmpIn(a, b, 1, Len(a))

(* s: the limbs lo..hi of a + b + c; c: the carry out *)
RECURSIVE BAddIn(_, _, _, _, _)
BAddIn(a, b, c, lo, hi) ==
    IF lo = hi
    THEN LET x == Limb(a, lo) + Limb(b, lo) + c
         IN  [s |-> <<x % LimbBase>>, c |-> x \div LimbBase]
    ELSE LET mid == (lo + hi) \div 2
             low == BAddIn(a, b, c, lo, mid)
             top == BAddIn(a, b, low.c, mid + 1, hi)
         IN  [s |-> low.s \o top.s, c |-> top.c]

(* the limbs x.s with the carry x.c on top *)
WithCarry(x) == IF x.c = 0 THEN x.s ELSE x.s \o <<x.c>>

BAdd(a, b) ==
    IF a = << >> THEN b
    ELSE IF b = << >> THEN a
    ELSE WithCarry(BAddIn(a, b, 0, 1, Max(Len(a), Len(b))))

(* s: the limbs lo..hi of a - b - c; c: the borrow out *)
RECURSIVE BSubIn(_, _, _, _, _)
BSubIn(a, b, c, lo, hi) ==
    IF lo = hi
    THEN LET x == a[lo] - Limb(b, lo) - c
         IN  [s |-> <<x % LimbBase>>, c |-> IF x < 0 THEN 1 ELSE 0]
    ELSE LET mid == (lo + hi) \div 2
             low == BSubIn(a, b, c, lo, mid)
             top == BSubIn(a, b, low.c, mid + 1, hi)
         IN  [s |-> low.s \o top.s, c |-> top.c]

(* a - b, for a >= b *)
BSub(a, b) == IF b = << >> THEN a ELSE BTrim(BSubIn(a, b, 0, 1, Len(a)).s)

(* s: the limbs lo..hi of a * k + c; c: the carry out *)
RECURSIVE BMulSmallIn(_, _, _, _, _)
BMulSmallIn(a, k, c, lo, hi) ==
    IF lo = hi
    THEN LET x == a[lo] * k + c
         IN  [s |-> <<x % LimbBase>>, c |-> x \div LimbBase]
    ELSE LET mid == (lo + hi) \div 2
             low == BMulSmallIn(a, k, c, lo, mid)
             top == BMulSmallIn(a, k, low.c, mid + 1, hi)
         IN  [s |-> low.s \o top.s, c |-> top.c]

(* a * k, for 0 <= k < LimbBase *)
BMulSmall(a, k) ==
    IF k = 0 \/ a = << >> THEN << >>
    ELSE WithCarry(BMulSmallIn(a, k, 0, 1, Len(a)))

Zeros(n) == [i \in 1..n |-> 0]

(* a * LimbBase^n *)
BShlLimbs(a, n) == IF a = << >> THEN a ELSE Zeros(n) \o a

(* a times the limbs lo..hi of b *)
RECURSIVE BMulIn(_, _, _, _)
BMulIn(a, b, lo, hi) ==
    IF lo = hi THEN BMulSmall(a, b[lo])
    ELSE LET mid == (lo + hi) \div 2
         IN  BAdd(BMulIn(a, b, lo, mid),
                  BShlLimbs(BMulIn(a, b, mid + 1, hi), mid + 1 - lo))

BMul(a, b) ==
    IF a = << >> \/ b = << >> THEN << >> ELSE BMulIn(a, b, 1, Len(b))

Reverse(a) == [i \in 1..Len(a) |-> a[Len(a) + 1 - i]]

(* long division of the limbs hi down to lo of a by k, r the remainder so    *)
(* far; the quotient limbs come out most significant first                   *)
RECURSIVE BDivSmallIn(_, _, _, _, _)
BDivSmallIn(a, k, r, lo, hi) ==
    IF lo = hi
    THEN LET x == r * LimbBase + a[lo]
         IN  [q |-> <<x \div k>>, r |-> x % k]
    ELSE LET mid == (lo + hi) \div 2
             top == BDivSmallIn(a, k, r, mid + 1, hi)
             low == BDivSmallIn(a, k, top.r, lo, mid)
         IN  [q |-> top.q \o low.q, r |-> low.r]

(* quotient and remainder of a by k, for 0 < k <= LimbBase *)
LittleEnd(x) == [q |-> BTrim(Reverse(x.q)), r |-> x.r]

BDivSmall(a, k) ==
    IF a = << >> THEN [q |-> << >>, r |-> 0]
    ELSE LittleEnd(BDivSmallIn(a, k, 0, 1, Len(a)))

BShl(a, n) == BShlLimbs(BMulSmall(a, 2 ^ (n % LimbBits)), n \div LimbBits)

BShr(a, n) ==
    IF n \div LimbBits >= Len(a) THEN << >>
    ELSE BDivSmall(SubSeq(a, n \div LimbBits + 1, Len(a)), 2 ^ (n % LimbBits)).q

RECURSIVE NatBitLen(_)
NatBitLen(n) == IF n = 0 THEN 0 ELSE 1 + NatBitLen(n \div 2)

BBitLen(a) == IF a = << >> THEN 0 ELSE (Len(a) - 1) * LimbBits + NatBitLen(a[Len(a)])

RECURSIVE NatTz(_)
NatTz(n) == IF n % 2 = 1 THEN 0 ELSE 1 + NatTz(n \div 2)

(* number of trailing zero bits of a > 0 *)
BTzAt(a, i) == (i - 1) * LimbBits + NatTz(a[i])

BTz(a) == BTzAt(a, CHOOSE i \in 1..Len(a) : a[i] # 0 /\ \A j \in 1..(i - 1) : a[j] = 0)

BOdd(a) == a # << >> /\ a[1] % 2 = 1

(* one quotient limb of cur by d, for cur < d * LimbBase and d's top limb at *)
(* least LimbBase / 2: the estimate from the top limbs is at most 2 too big  *)
RECURSIVE BQFix(_, _, _)
BQFix(cur, d, q) == IF BCmp(BMulSmall(d, q), cur) > 0 THEN BQFix(cur, d, q - 1) ELSE q

BQDigitAt(cur, d, n) ==
    BQFix(cur, d, Min((Limb(cur, n + 1) * LimbBase + Limb(cur, n)) \div d[n],
                      LimbBase - 1))

BQDigit(cur, d) == BQDigitAt(cur, d, Len(d))

(* one step of the long division by d: the quotient limb qd and the remainder *)
BDivStepOf(cur, d, qd) == [q |-> <<qd>>, r |-> BSub(cur, BMulSmall(d, qd))]

BDivStep(cur, d) == BDivStepOf(cur, d, BQDigit(cur, d))

(* long division of the limbs hi down to lo of a by d, r the remainder so    *)
(* far; the quotient limbs come out most significant first                   *)
RECURSIVE BDivIn(_, _, _, _, _)
BDivIn(a, d, r, lo, hi) ==
    IF lo = hi THEN BDivStep(BTrim(<<a[lo]>> \o r), d)
    ELSE LET mid == (lo + hi) \div 2
             top == BDivIn(a, d, r, mid + 1, hi)
             low == BDivIn(a, d, top.r, lo, mid)
         IN  [q |-> top.q \o low.q, r |-> low.r]

BigRemainder(x) == [q |-> x.q, r |-> BFromNat(x.r)]

Unshifted(x, s) == [q |-> BTrim(Reverse(x.q)), r |-> BShr(x.r, s)]

(* a / d for d's top limb at least LimbBase / 2 *)
BDivNormal(a, d) == BDivIn(a, d, << >>, 1, Len(a))

BDivShift(a, d, s) == Unshifted(BDivNormal(BShl(a, s), BShl(d, s)), s)

(* quotient and remainder of a by d > 0 *)
BDivMod(a, d) ==
    IF Len(d) = 1 THEN BigRemainder(BDivSmall(a, d[1]))
    ELSE IF BCmp(a, d) < 0 THEN [q |-> << >>, r |-> a]
    ELSE BDivShift(a, d, LimbBits - NatBitLen(d[Len(d)]))

(* k^n, for 0 < k < LimbBase *)
RECURSIVE BPowSmall(_, _)
BPowSmall(k, n) ==
    IF n = 0 THEN <<1>>
    ELSE LET h == BPowSmall(k, n \div 2)
         IN  IF n % 2 = 0 THEN BMul(h, h) ELSE BMulSmall(BMul(h, h), k)

----------------------------------------------------------------------------
(* The JavaScript number type: IEEE 754 binary64, round to nearest, ties   *)
(* to even.  k is "fin", "inf" or "nan"; a finite value is                 *)
(* (-1)^s * m * 2^e with m odd, or m = << >> and e = 0 for a zero.         *)

MantBits == 53
MinExp   == -1074
MaxTop   == 1024

NaN     == [k |-> "nan", s |-> 0, m |-> << >>, e |-> 0]
Inf(s)  == [k |-> "inf", s |-> s, m |-> << >>, e |-> 0]
Zero(s) == [k |-> "fin", s |-> s, m |-> << >>, e |-> 0]

IsNaN(a)    == a.k = "nan"
IsInf(a)    == a.k = "inf"
IsFinite(a) == a.k = "fin"
IsZero(a)   == a.k = "fin" /\ a.m = << >>

(* the finite value (-1)^s * m * 2^e, m > 0 of at most 53 bits, made canonical *)
FinOdd(s, m, e, tz) == [k |-> "fin", s |-> s, m |-> BShr(m, tz), e |-> e + tz]

Fin(s, m, e) ==
    IF m = << >> THEN Zero(s)
    ELSE IF BBitLen(m) + e > MaxTop THEN Inf(s)
    ELSE FinOdd(s, m, e, BTz(m))

(* (-1)^s * (q + f) * 2^x rounded to a number, for q > 0 and a fraction     *)
(* 0 <= f < 1 that is non-zero exactly when sticky holds (then q has more  *)
(* than 54 bits): the drop low bits of q are cut off, kept is the rest, and *)
(* c is -1, 0 or 1 as what is cut off is below, at or above one half        *)
RoundsUp(c, sticky, kept) == c > 0 \/ (c = 0 /\ (sticky \/ BOdd(kept)))

RoundKept(s, q, sticky, drop, kept) ==
    IF RoundsUp(BCmp(BSub(q, BShl(kept, drop)), BShl(<<1>>, drop - 1)), sticky, kept)
    THEN BAdd(kept, <<1>>)
    ELSE kept

RoundDrop(s, q, sticky, x, drop) ==
    IF drop <= 0 THEN Fin(s, q, x)
    ELSE Fin(s, RoundKept(s, q, sticky, drop, BShr(q, drop)), x + drop)

RoundBits(s, q, sticky, x) ==
    RoundDrop(s, q, sticky, x, Max(BBitLen(q) + x - MantBits, MinExp) - x)

(* (-1)^s * (n / d) * 2^x rounded to a number, for n > 0 and d > 0: the     *)
(* quotient of n * 2^a by d has 56 or 57 bits                               *)
RoundQuot(s, dm, x) == RoundBits(s, dm.q, dm.r # << >>, x)

RoundShift(s, n, d, x, a) ==
    RoundQuot(s, BDivMod(IF a >= 0 THEN BShl(n, a) ELSE n,
                         IF a >= 0 THEN d ELSE BShl(d, -a)), x - a)

RoundRat(s, n, d, x) ==
    IF d = <<1>> THEN RoundBits(s, n, FALSE, x)
    ELSE RoundShift(s, n, d, x, MantBits + 3 - (BBitLen(n) - BBitLen(d)))

NumFromInt(n) == IF n >= 0 THEN Fin(0, BFromNat(n), 0) ELSE Fin(1, BFromNat(-n), 0)

NumNeg(a) == IF IsNaN(a) THEN a ELSE [a EXCEPT !.s = 1 - a.s]

Xor(s, t) == (s + t) % 2

(* the JavaScript operator a * b *)
NumMul(a, b) ==
    IF IsNaN(a) \/ IsNaN(b) THEN NaN
    ELSE IF IsInf(a) \/ IsInf(b)
         THEN (IF IsZero(a) \/ IsZero(b) THEN NaN ELSE Inf(Xor(a.s, b.s)))
    ELSE IF IsZero(a) \/ IsZero(b) THEN Zero(Xor(a.s, b.s))
    ELSE RoundBits(Xor(a.s, b.s), BMul(a.m, b.m), FALSE, a.e + b.e)

(* the JavaScript operator a / b *)
NumDiv(a, b) ==
    IF IsNaN(a) \/ IsNaN(b) THEN NaN
    ELSE IF IsInf(a) THEN (IF IsInf(b) THEN NaN ELSE Inf(Xor(a.s, b.s)))
    ELSE IF IsInf(b) THEN Zero(Xor(a.s, b.s))
    ELSE IF IsZero(b) THEN (IF IsZero(a) THEN NaN ELSE Inf(Xor(a.s, b.s)))
    ELSE IF IsZero(a) THEN Zero(Xor(a.s, b.s))
    ELSE RoundRat(Xor(a.s, b.s), a.m, b.m, a.e - b.e)

(* -1, 0 or 1 as |a| is below, equal to or above |b|, for finite non-zero a, b *)
MagCmp(a, b) ==
    LET ta == BBitLen(a.m) + a.e
        tb == BBitLen(b.m) + b.e
        lo == Min(a.e, b.e)
    IN  IF ta > tb THEN 1
        ELSE IF ta < tb THEN -1
        ELSE BCmp(BShl(a.m, a.e - lo), BShl(b.m, b.e - lo))

(* -1, 0 or 1 as a is below, equal to or above b, for a and b not NaN *)
NumCmp(a, b) ==
    LET sa == IF IsZero(a) THEN 0 ELSE 1 - 2 * a.s
        sb == IF IsZero(b) THEN 0 ELSE 1 - 2 * b.s
    IN  IF sa # sb THEN (IF sa > sb THEN 1 ELSE -1)
        ELSE IF sa = 0 THEN 0
        ELSE IF IsInf(a) \/ IsInf(b)
             THEN (IF IsInf(a) /\ IsInf(b) THEN 0 ELSE IF IsInf(a) THEN sa ELSE -sa)
        ELSE sa * MagCmp(a, b)

(* the JavaScript operators a >= b, a < b and a === b *)
(* NumGe as > would compare, and as !(a < b) would *)
NumGt(a, b) == ~IsNaN(a) /\ ~IsNaN(b) /\ NumCmp(a, b) > 0

NumNotLt(a, b) == IsNaN(a) \/ IsNaN(b) \/ NumCmp(a, b) >= 0

NumGe(a, b) == ~IsNaN(a) /\ ~IsNaN(b) /\ NumCmp(a, b) >= 0
NumLt(a, b) == ~IsNaN(a) /\ ~IsNaN(b) /\ NumCmp(a, b) < 0
NumEq(a, b) == ~IsNaN(a) /\ ~IsNaN(b) /\ NumCmp(a, b) = 0

(* Math.pow(b, n) and b ** n for naturals b < LimbBase and n: the power,   *)
(* rounded once                                                            *)
NumPow(b, n) == RoundBits(0, BPowSmall(b, n), FALSE, 0)

----------------------------------------------------------------------------
(* Decimal text *)

(* A text is the sequence of the code points of its characters. *)
Codes(chars, first) ==
    [c \in {SubSeq(chars, i, i) : i \in 1..Len(chars)} |->
        first - 1 + CHOOSE i \in 1..Len(chars) : SubSeq(chars, i, i) = c]

(* the code points of the characters that the texts of the program are made of *)
CodePoint ==
    Codes(" ", 32) @@ Codes("+,-.", 43) @@ Codes("0123456789", 48)
        @@ Codes("ABCDEFGHIJKLMNOPQRSTUVWXYZ", 65)
        @@ Codes("abcdefghijklmnopqrstuvwxyz", 97)

(* the text that a string literal of these characters stands for *)
RECURSIVE Text(_)
Text(s) == IF s = "" THEN << >> ELSE <<CodePoint[Head(s)]>> \o Text(Tail(s))

(* the infinity sign, U+221E *)
InfinitySign == <<8734>>

Digit(d) == <<CodePoint["0"] + d>>

RECURSIVE NatStr(_)
NatStr(n) == IF n < 10 THEN Digit(n) ELSE NatStr(n \div 10) \o Digit(n % 10)

Pad3(n) == Digit(n \div 100) \o Digit((n \div 10) % 10) \o Digit(n % 10)

(* the decimal digits of a, most significant first; none for zero *)
RECURSIVE BDigits(_)
BDigits(a) ==
    IF a = << >> THEN << >>
    ELSE LET d == BDivSmall(a, 10) IN BDigits(d.q) \o <<d.r>>

(* the natural number with the decimal digits ds *)
RECURSIVE FromDigits(_)
FromDigits(ds) ==
    IF ds = << >> THEN << >>
    ELSE BAdd(BMulSmall(FromDigits(SubSeq(ds, 1, Len(ds) - 1)), 10), BFromNat(ds[Len(ds)]))

RECURSIVE DigitStr(_)
DigitStr(ds) == IF ds = << >> THEN << >> ELSE Digit(ds[1]) \o DigitStr(Tail(ds))

RECURSIVE StripZeros(_)
StripZeros(ds) ==
    IF ds # << >> /\ ds[Len(ds)] = 0 THEN StripZeros(SubSeq(ds, 1, Len(ds) - 1)) ELSE ds

(* 10^j *)
Pow10(j) == BMulSmall(BPowSmall(10 ^ 4, j \div 4), 10 ^ (j % 4))

(* the number of decimal digits of a > 0 *)
BDecLen(a) ==
    LET est == ((BBitLen(a) - 1) * 30103) \div 100000
    IN  IF BCmp(a, Pow10(est + 1)) >= 0 THEN est + 2 ELSE est + 1

(* a < 1000^g as g groups of three digits with commas between, the first group *)
(* without leading zeros when first holds                                      *)
RECURSIVE BGroups(_, _, _)
BGroupsOf(x, g, h, first) == BGroups(x.q, g - h, first) \o Text(",") \o BGroups(x.r, h, FALSE)

BGroups(a, g, first) ==
    IF g = 1 THEN (IF first THEN NatStr(Limb(a, 1)) ELSE Pad3(Limb(a, 1)))
    ELSE BGroupsOf(BDivMod(a, Pow10(3 * (g \div 2))), g, g \div 2, first)

(* the integer a in decimal with a comma between groups of three digits *)
BGrouped(a) == IF a = << >> THEN Text("0") ELSE BGroups(a, (BDecLen(a) + 2) \div 3, TRUE)

(* |a|, for a finite *)
NumAbs(a) == [a EXCEPT !.s = 0]

(* numerator and denominator of |a|, for a finite *)
MagNum(a) == IF a.e >= 0 THEN BShl(a.m, a.e) ELSE a.m
MagDen(a) == IF a.e >= 0 THEN <<1>> ELSE BShl(<<1>>, -a.e)

(* Number::toString(a) of ECMA-262: the digits of the shortest decimal that   *)
(* reads back as a, and among those the one nearest to a.  DecExp is the n    *)
(* with 10^(n-1) <= |a| < 10^n.  With k digits the two decimals around |a|    *)
(* are Below and Below + 1, in units of 10^(n-k).                             *)
Pow10Cmp(a, j) ==
    IF j >= 0 THEN BCmp(MagNum(a), BMul(MagDen(a), Pow10(j)))
    ELSE BCmp(BMul(MagNum(a), Pow10(-j)), MagDen(a))

DecExpNear(a, est) ==
    IF Pow10Cmp(a, est) < 0 THEN est
    ELSE IF Pow10Cmp(a, est + 1) >= 0 THEN est + 2 ELSE est + 1

DecExp(a) == DecExpNear(a, ((BBitLen(a.m) + a.e - 1) * 30103) \div 100000)

(* q = floor(n / d), and c = -1, 0 or 1 as n / d is nearer to q, half way, *)
(* or nearer to q + 1                                                      *)
FloorOf(x, d) == [q |-> x.q, c |-> BCmp(BMulSmall(x.r, 2), d)]

Floor(n, d) == FloorOf(BDivMod(n, d), d)

(* Floor of |a| / 10^scale *)
Below(a, scale) ==
    IF scale >= 0 THEN Floor(MagNum(a), BMul(MagDen(a), Pow10(scale)))
    ELSE Floor(BMul(MagNum(a), Pow10(-scale)), MagDen(a))

ReadDecimal(sig, scale) ==
    IF sig = << >> THEN Zero(0)
    ELSE IF scale >= 0 THEN RoundRat(0, BMul(sig, Pow10(scale)), <<1>>, 0)
    ELSE RoundRat(0, sig, Pow10(-scale), 0)

(* sig * 10^scale reads back as |a| *)
ReadsAs(sig, scale, a) == ReadDecimal(sig, scale) = NumAbs(a)

(* the first of the two candidates that reads back as |a|, if any *)
FirstReadBack(a, scale, cands) ==
    IF ReadsAs(cands[1], scale, a) THEN <<cands[1]>>
    ELSE IF ReadsAs(cands[2], scale, a) THEN <<cands[2]>>
    ELSE << >>

(* the candidates around |a|, f as Below gives it: the nearer one first, the *)
(* even one first when both are as near                                      *)
Candidates(f) ==
    IF f.c < 0 \/ (f.c = 0 /\ ~BOdd(f.q)) THEN <<f.q, BAdd(f.q, <<1>>)>>
    ELSE <<BAdd(f.q, <<1>>), f.q>>

(* the k-digit decimal that reads back as |a|, in units of 10^(n-k): a        *)
(* sequence of one number, or none                                             *)
ReadBack(a, n, k) == FirstReadBack(a, n - k, Candidates(Below(a, n - k)))

MaxDigits == 17

(* the least k in lo..hi with a k-digit decimal that reads back as |a|; one     *)
(* exists for hi, and whenever one exists for k one exists for k + 1            *)
RECURSIVE LeastDigits(_, _, _, _)
LeastDigits(a, n, lo, hi) ==
    IF lo >= hi THEN hi
    ELSE IF ReadBack(a, n, (lo + hi) \div 2) # << >>
         THEN LeastDigits(a, n, lo, (lo + hi) \div 2)
         ELSE LeastDigits(a, n, (lo + hi) \div 2 + 1, hi)

(* ds: the digits; n: the decimal point stands after the n-th digit *)
ShortestOf(all, scale) == [ds |-> StripZeros(all), n |-> scale + Len(all)]

ShortestWith(a, n, k) == ShortestOf(BDigits(ReadBack(a, n, k)[1]), n - k)

ShortestAt(a, n) == ShortestWith(a, n, LeastDigits(a, n, 1, MaxDigits))

Shortest(a) == ShortestAt(a, DecExp(a))

RECURSIVE ZeroStr(_)
ZeroStr(n) == IF n <= 0 THEN << >> ELSE Text("0") \o ZeroStr(n - 1)

(* the text of the decimal with the k digits ds and the point after the n-th *)
DecimalText(ds, k, n) ==
    IF k <= n /\ n <= 21 THEN DigitStr(ds) \o ZeroStr(n - k)
    ELSE IF 0 < n /\ n <= 21
         THEN DigitStr(SubSeq(ds, 1, n)) \o Text(".") \o DigitStr(SubSeq(ds, n + 1, k))
    ELSE IF -6 < n /\ n <= 0 THEN Text("0.") \o ZeroStr(-n) \o DigitStr(ds)
    ELSE DigitStr(<<ds[1]>>)
         \o (IF k = 1 THEN << >> ELSE Text(".") \o DigitStr(Tail(ds)))
         \o Text("e") \o (IF n - 1 >= 0 THEN Text("+") ELSE Text("-"))
         \o NatStr(IF n - 1 >= 0 THEN n - 1 ELSE 1 - n)

ShortestText(sh) == DecimalText(sh.ds, Len(sh.ds), sh.n)

NumToString(a) ==
    IF IsNaN(a) THEN Text("NaN")
    ELSE IF IsZero(a) THEN Text("0")
    ELSE IF IsInf(a) THEN (IF a.s = 1 THEN Text("-Infinity") ELSE Text("Infinity"))
    ELSE (IF a.s = 1 THEN Text("-") ELSE << >>) \o ShortestText(Shortest(a))

(* numberFormatter: Intl.NumberFormat('en-US', {style: 'decimal',              *)
(* maximumFractionDigits: 2}).  It renders the shortest decimal that reads     *)
(* back as the number, rounded to MaxFrac fraction digits at most, half away   *)
(* from zero (ECMA-402 "halfExpand"), without trailing zeros and with a comma  *)
(* between groups of three integer digits.  It renders an infinite number as   *)
(* the infinity sign.                                                          *)
MaxFrac == 2

(* n / d rounded half up to an integer, f the Floor of n / d *)
HalfUp(f) == IF f.c >= 0 THEN BAdd(f.q, <<1>>) ELSE f.q

BDivRound(n, d) == HalfUp(Floor(n, d))

(* |a| * 10^f rounded half up to an integer, for a finite *)
Scaled(a, f) ==
    IF a.e >= 0 THEN BMul(BShl(a.m, a.e), Pow10(f))
    ELSE BDivRound(BMul(a.m, Pow10(f)), BShl(<<1>>, -a.e))

(* The shortest decimal of |a| rounded to MaxFrac fraction digits, in units of *)
(* 10^-MaxFrac, for |a| < 2^SmallBits, where neighbouring numbers are less     *)
(* than 10^-(MaxFrac+1) apart.  A decimal of MaxFrac + 1 fraction digits that  *)
(* reads back as a is then the only one, and the shortest decimal is that      *)
(* decimal without its trailing zeros: it is rounded.  When there is none, no  *)
(* rounding boundary lies between the shortest decimal and the exact value of  *)
(* a, and the exact value is rounded.                                          *)
SmallBits == 43

RoundedSmallOf(a, n3) ==
    IF ReadsAs(n3, -(MaxFrac + 1), a) THEN BDivSmall(BAdd(n3, <<5>>), 10).q
    ELSE Scaled(a, MaxFrac)

RoundedSmall(a) == RoundedSmallOf(a, Scaled(a, MaxFrac + 1))

(* The same from the digits of the shortest decimal: the digits before the     *)
(* cut, and one more when the first digit after the cut is 5 or above.         *)
RoundedDigits(ds, k, keep) ==
    IF keep < 0 THEN << >>
    ELSE IF k <= keep THEN BMul(FromDigits(ds), Pow10(keep - k))
    ELSE BAdd(FromDigits(SubSeq(ds, 1, keep)),
              IF ds[keep + 1] >= 5 THEN <<1>> ELSE << >>)

RoundedOf(sh) == RoundedDigits(sh.ds, Len(sh.ds), sh.n + MaxFrac)

RoundedLarge(a) == RoundedOf(Shortest(a))

Rounded(a) ==
    IF IsZero(a) THEN << >>
    ELSE IF BBitLen(a.m) + a.e <= SmallBits THEN RoundedSmall(a)
    ELSE RoundedLarge(a)

(* the integer part d.q and the hundredths d.r as text *)
FixedText(d) ==
    BGrouped(d.q)
        \o (IF d.r = 0 THEN << >>
            ELSE Text(".") \o DigitStr(StripZeros(<<d.r \div 10, d.r % 10>>)))

(* NumberFormat with minimumFractionDigits: 2 as well *)
NumberFormatPadded(a) ==
    IF IsNaN(a) THEN Text("NaN")
    ELSE IF IsInf(a) THEN (IF a.s = 1 THEN Text("-") ELSE << >>) \o InfinitySign
    ELSE (IF a.s = 1 THEN Text("-") ELSE << >>)
             \o BGrouped(BDivSmall(Rounded(a), 10 ^ MaxFrac).q)
             \o Text(".") \o DigitStr(<<BDivSmall(Rounded(a), 10 ^ MaxFrac).r \div 10,
                                  BDivSmall(Rounded(a), 10 ^ MaxFrac).r % 10>>)

NumberFormat(a) ==
    IF IsNaN(a) THEN Text("NaN")
    ELSE IF IsInf(a) THEN (IF a.s = 1 THEN Text("-") ELSE << >>) \o InfinitySign
    ELSE (IF a.s = 1 THEN Text("-") ELSE << >>) \o FixedText(BDivSmall(Rounded(a), 10 ^ MaxFrac))

----------------------------------------------------------------------------
(* The simpler variant: class Bytes of src/src/index.ts.  An instance is a   *)
(* record of its fields.                                                     *)

SimpleBytes(bytes) == [class |-> "simple", bytes |-> bytes]

fromBytess(bytes) == SimpleBytes(bytes)

fromKilobytes(kilobytes) == SimpleBytes(NumMul(kilobytes, NumFromInt(1024)))
fromMegabytes(megabytes) == SimpleBytes(NumMul(NumPow(1024, 2), megabytes))
fromGigabytes(gigabytes) == SimpleBytes(NumMul(NumPow(1024, 3), gigabytes))
fromTerabytes(terabytes) == SimpleBytes(NumMul(NumPow(1024, 4), terabytes))
fromPetabytes(petabytes) == SimpleBytes(NumMul(NumPow(1024, 5), petabytes))
fromExabytes(exabytes) == SimpleBytes(NumMul(NumPow(1024, 6), exabytes))
fromZettabytes(zettabytes) == SimpleBytes(NumMul(NumPow(1024, 7), zettabytes))
fromYottabytes(yottabytes) == SimpleBytes(NumMul(NumPow(1024, 8), yottabytes))
fromBrontobytes(brontobytes) == SimpleBytes(NumMul(NumPow(1024, 9), brontobytes))

kilobytes(this) == NumDiv(this.bytes, NumFromInt(1024))
megabytes(this) == NumDiv(kilobytes(this), NumFromInt(1024))
gigabytes(this) == NumDiv(megabytes(this), NumFromInt(1024))
terabytes(this) == NumDiv(gigabytes(this), NumFromInt(1024))
petabytes(this) == NumDiv(terabytes(this), NumFromInt(1024))
exabytes(this) == NumDiv(petabytes(this), NumFromInt(1024))
zettabytes(this) == NumDiv(exabytes(this), NumFromInt(1024))
yottabytes(this) == NumDiv(zettabytes(this), NumFromInt(1024))
brontobytes(this) == NumDiv(yottabytes(this), NumFromInt(1024))

(* the template literal `${this.bytes} bytes` *)
SimpleToString(this) == NumToString(this.bytes) \o Text(" bytes")

units == <<Text("bytes"), Text("KB"), Text("MB"), Text("GB"), Text("TB"), Text("PB"), Text("EB"), Text("ZB"), Text("YB"), Text("BB")>>

(* `${arr[i]}` in a template literal, i counted from 0: reading an array past *)
(* its end gives undefined, which the template renders as "undefined"         *)
Element(arr, i) == IF i < Len(arr) THEN arr[i + 1] ELSE Text("undefined")

(* the template literal `${numberFormatter.format(size)} ${arr[i]}` *)
(* Render as `${size} ${arr[i]}` would *)
RenderPlain(size, arr, i) == NumToString(size) \o Text(" ") \o Element(arr, i)

Render(size, arr, i) == NumberFormat(size) \o Text(" ") \o Element(arr, i)

----------------------------------------------------------------------------
(* The richer variant: class Bytes listed in src/README.md. *)

names ==
    [decimal |-> <<Text("B"), Text("KB"), Text("MB"), Text("GB"), Text("TB"), Text("PB"), Text("EB"), Text("ZB"), Text("YB")>>,
     binary  |-> <<Text("B"), Text("KiB"), Text("MiB"), Text("GiB"), Text("TiB"), Text("PiB"), Text("EiB"), Text("ZiB"), Text("YiB")>>]

Unit == {"binary", "decimal"}

conversionFactor == [decimal |-> 1000, binary |-> 1024]

RichBytes(bytes, preferredUnit) ==
    [class |-> "rich", bytes |-> bytes, preferredUnit |-> preferredUnit]

fromKibiBytes(kibiBytes) == RichBytes(NumMul(kibiBytes, NumPow(conversionFactor.binary, 1)), "binary")
fromMebiBytes(mebiBytes) == RichBytes(NumMul(mebiBytes, NumPow(conversionFactor.binary, 2)), "binary")
(* fromGibiBytes with the exponent of fromMebiBytes *)
fromGibiBytesSquared(gibiBytes) ==
    RichBytes(NumMul(gibiBytes, NumPow(conversionFactor.binary, 2)), "binary")

fromGibiBytes(gibiBytes) == RichBytes(NumMul(gibiBytes, NumPow(conversionFactor.binary, 3)), "binary")
fromTebiBytes(tebiBytes) == RichBytes(NumMul(tebiBytes, NumPow(conversionFactor.binary, 4)), "binary")
fromPebiBytes(pebiBytes) == RichBytes(NumMul(pebiBytes, NumPow(conversionFactor.binary, 5)), "binary")
fromExbiBytes(exbiBytes) == RichBytes(NumMul(exbiBytes, NumPow(conversionFactor.binary, 6)), "binary")
fromZebiBytes(zebiBytes) == RichBytes(NumMul(zebiBytes, NumPow(conversionFactor.binary, 7)), "binary")
fromYobiBytes(yobiBytes) == RichBytes(NumMul(yobiBytes, NumPow(conversionFactor.binary, 8)), "binary")

fromKiloBytes(kiloBytes) == RichBytes(NumMul(kiloBytes, NumPow(conversionFactor.decimal, 1)), "decimal")
fromMegaBytes(megaBytes) == RichBytes(NumMul(megaBytes, NumPow(conversionFactor.decimal, 2)), "decimal")
fromGigaBytes(gigaBytes) == RichBytes(NumMul(gigaBytes, NumPow(conversionFactor.decimal, 3)), "decimal")
fromTeraBytes(teraBytes) == RichBytes(NumMul(teraBytes, NumPow(conversionFactor.decimal, 4)), "decimal")
fromPetaBytes(petaBytes) == RichBytes(NumMul(petaBytes, NumPow(conversionFactor.decimal, 5)), "decimal")
fromExaBytes(exaBytes) == RichBytes(NumMul(exaBytes, NumPow(conversionFactor.decimal, 6)), "decimal")
fromZettaBytes(zettaBytes) == RichBytes(NumMul(zettaBytes, NumPow(conversionFactor.decimal, 7)), "decimal")
fromYottaBytes(yottaBytes) == RichBytes(NumMul(yottaBytes, NumPow(conversionFactor.decimal, 8)), "decimal")

(* fromBytes(bytes, unit), unit = "binary" when the call gives none *)
fromBytes(bytes, unit) == RichBytes(bytes, unit)

valueOf(this) == this.bytes

kibiBytes(this) == NumDiv(this.bytes, NumPow(conversionFactor.binary, 1))
mebiBytes(this) == NumDiv(this.bytes, NumPow(conversionFactor.binary, 2))
gibiBytes(this) == NumDiv(this.bytes, NumPow(conversionFactor.binary, 3))
tebiBytes(this) == NumDiv(this.bytes, NumPow(conversionFactor.binary, 4))
pebiBytes(this) == NumDiv(this.bytes, NumPow(conversionFactor.binary, 5))
exbiBytes(this) == NumDiv(this.bytes, NumPow(conversionFactor.binary, 6))
zebiBytes(this) == NumDiv(this.bytes, NumPow(conversionFactor.binary, 7))
yobiBytes(this) == NumDiv(this.bytes, NumPow(conversionFactor.binary, 8))

kiloBytes(this) == NumDiv(this.bytes, NumPow(conversionFactor.decimal, 1))
megaBytes(this) == NumDiv(this.bytes, NumPow(conversionFactor.decimal, 2))
gigaBytes(this) == NumDiv(this.bytes, NumPow(conversionFactor.decimal, 3))
teraBytes(this) == NumDiv(this.bytes, NumPow(conversionFactor.decimal, 4))
petaBytes(this) == NumDiv(this.bytes, NumPow(conversionFactor.decimal, 5))
exaBytes(this) == NumDiv(this.bytes, NumPow(conversionFactor.decimal, 6))
zettaBytes(this) == NumDiv(this.bytes, NumPow(conversionFactor.decimal, 7))
yottaBytes(this) == NumDiv(this.bytes, NumPow(conversionFactor.decimal, 8))

----------------------------------------------------------------------------
(* Calls by number: k is the power of the base in the unit's definition. *)

SimpleGetters ==
    <<"kilobytes", "megabytes", "gigabytes", "terabytes", "petabytes",
      "exabytes", "zettabytes", "yottabytes", "brontobytes">>

BinaryGetters ==
    <<"kibiBytes", "mebiBytes", "gibiBytes", "tebiBytes", "pebiBytes",
      "exbiBytes", "zebiBytes", "yobiBytes">>

DecimalGetters ==
    <<"kiloBytes", "megaBytes", "gigaBytes", "teraBytes", "petaBytes",
      "exaBytes", "zettaBytes", "yottaBytes">>

SimpleGet(this, k) ==
    CASE k = 1 -> kilobytes(this)  [] k = 2 -> megabytes(this)
      [] k = 3 -> gigabytes(this)  [] k = 4 -> terabytes(this)
      [] k = 5 -> petabytes(this)  [] k = 6 -> exabytes(this)
      [] k = 7 -> zettabytes(this) [] k = 8 -> yottabytes(this)
      [] k = 9 -> brontobytes(this)

BinaryGet(this, k) ==
    CASE k = 1 -> kibiBytes(this) [] k = 2 -> mebiBytes(this)
      [] k = 3 -> gibiBytes(this) [] k = 4 -> tebiBytes(this)
      [] k = 5 -> pebiBytes(this) [] k = 6 -> exbiBytes(this)
      [] k = 7 -> zebiBytes(this) [] k = 8 -> yobiBytes(this)

DecimalGet(this, k) ==
    CASE k = 1 -> kiloBytes(this)  [] k = 2 -> megaBytes(this)
      [] k = 3 -> gigaBytes(this)  [] k = 4 -> teraBytes(this)
      [] k = 5 -> petaBytes(this)  [] k = 6 -> exaBytes(this)
      [] k = 7 -> zettaBytes(this) [] k = 8 -> yottaBytes(this)

SimpleFrom(k, n) ==
    CASE k = 1 -> fromKilobytes(n)  [] k = 2 -> fromMegabytes(n)
      [] k = 3 -> fromGigabytes(n)  [] k = 4 -> fromTerabytes(n)
      [] k = 5 -> fromPetabytes(n)  [] k = 6 -> fromExabytes(n)
      [] k = 7 -> fromZettabytes(n) [] k = 8 -> fromYottabytes(n)
      [] k = 9 -> fromBrontobytes(n)

BinaryFrom(k, n) ==
    CASE k = 1 -> fromKibiBytes(n) [] k = 2 -> fromMebiBytes(n)
      [] k = 3 -> fromGibiBytes(n) [] k = 4 -> fromTebiBytes(n)
      [] k = 5 -> fromPebiBytes(n) [] k = 6 -> fromExbiBytes(n)
      [] k = 7 -> fromZebiBytes(n) [] k = 8 -> fromYobiBytes(n)

DecimalFrom(k, n) ==
    CASE k = 1 -> fromKiloBytes(n)  [] k = 2 -> fromMegaBytes(n)
      [] k = 3 -> fromGigaBytes(n)  [] k = 4 -> fromTeraBytes(n)
      [] k = 5 -> fromPetaBytes(n)  [] k = 6 -> fromExaBytes(n)
      [] k = 7 -> fromZettaBytes(n) [] k = 8 -> fromYottaBytes(n)

(* an argument the call leaves out *)
Undefined == "undefined"

(* Default as a default of 'binary' would *)
DefaultBinary(arg, dflt) == IF arg = Undefined THEN "binary" ELSE arg

Default(arg, dflt) == IF arg = Undefined THEN dflt ELSE arg

----------------------------------------------------------------------------
(* The state.  A caller holds instances by reference; a reference is bound   *)
(* once, by a constructor or a factory, and methods are then called on it,   *)
(* one call at a time.                                                       *)
(*   obj[r]   the instance r refers to, Null before r is bound               *)
(*   made[r]  how r was bound and the instance as it was constructed         *)
(*   ret[r]   the last call on r: NoCall before any; with pc = "loop" the    *)
(*            call is in its scaling loop and size and i are its locals;     *)
(*            with pc = "done" it has returned val                           *)

VARIABLES obj, made, ret

vars == <<obj, made, ret>>

Refs == {"a", "b"}

Null   == [class |-> "none"]
NoCall == [op |-> "none", pc |-> "none"]

Init ==
    /\ obj  = [r \in Refs |-> Null]
    /\ made = [r \in Refs |-> [op |-> "none"]]
    /\ ret  = [r \in Refs |-> NoCall]

(* no call is running *)
Idle == \A r \in Refs : ret[r].pc # "loop"

Bind(r, o, by) ==
    /\ Idle
    /\ obj[r] = Null
    /\ obj'  = [obj EXCEPT ![r] = o]
    /\ made' = [made EXCEPT ![r] = by @@ [obj |-> o]]
    /\ UNCHANGED ret

(* a.bytes = bytes  by the caller: bytes is a public field of both variants, *)
(* not readonly; the assignment has the value assigned.  made[r] is from     *)
(* then on the instance as assigned.                                         *)
Assign(r, bytes) ==
    /\ Idle
    /\ obj[r] # Null
    /\ obj'  = [obj EXCEPT ![r].bytes = bytes]
    /\ made' = [made EXCEPT ![r] = [op |-> "assign", obj |-> [obj[r] EXCEPT !.bytes = bytes]]]
    /\ ret'  = [ret EXCEPT ![r] = [op |-> "assign", pc |-> "done", val |-> bytes]]

(* new Bytes(bytes) of the simpler variant, and Bytes.fromBytess(bytes) *)
NewSimple(r, bytes) ==
    Bind(r, SimpleBytes(bytes), [op |-> "new"])

FromBytess(r, bytes) ==
    Bind(r, fromBytess(bytes), [op |-> "fromBytess"])

(* Bytes.fromKilobytes(n) .. Bytes.fromBrontobytes(n) *)
FromSimple(r, k, n) ==
    Bind(r, SimpleFrom(k, n), [op |-> "from", family |-> "simple", k |-> k, n |-> n])

(* new Bytes(bytes) and new Bytes(bytes, unit) of the richer variant *)
NewRich(r, bytes, unit) ==
    Bind(r, RichBytes(bytes, Default(unit, "binary")),
         [op |-> "new", unit |-> unit])

(* Bytes.fromBytes(bytes) and Bytes.fromBytes(bytes, unit) *)
FromBytes(r, bytes, unit) ==
    Bind(r, fromBytes(bytes, Default(unit, "binary")),
         [op |-> "fromBytes", unit |-> unit])

(* Bytes.fromKibiBytes(n) .. Bytes.fromYobiBytes(n) *)
FromBinary(r, k, n) ==
    Bind(r, BinaryFrom(k, n), [op |-> "from", family |-> "binary", k |-> k, n |-> n])

(* Bytes.fromKiloBytes(n) .. Bytes.fromYottaBytes(n) *)
FromDecimal(r, k, n) ==
    Bind(r, DecimalFrom(k, n), [op |-> "from", family |-> "decimal", k |-> k, n |-> n])

(* a call on r that returns at once *)
Return(r, result) ==
    /\ Idle
    /\ ret' = [ret EXCEPT ![r] = result @@ [pc |-> "done"]]
    /\ UNCHANGED <<obj, made>>

(* the getters kilobytes .. brontobytes *)
GetSimple(r, k) ==
    /\ obj[r].class = "simple"
    /\ Return(r, [op |-> SimpleGetters[k], family |-> "simple", k |-> k,
                  val |-> SimpleGet(obj[r], k)])

(* the getters kibiBytes .. yobiBytes *)
GetBinary(r, k) ==
    /\ obj[r].class = "rich"
    /\ Return(r, [op |-> BinaryGetters[k], family |-> "binary", k |-> k,
                  val |-> BinaryGet(obj[r], k)])

(* the getters kiloBytes .. yottaBytes *)
GetDecimal(r, k) ==
    /\ obj[r].class = "rich"
    /\ Return(r, [op |-> DecimalGetters[k], family |-> "decimal", k |-> k,
                  val |-> DecimalGet(obj[r], k)])

ValueOf(r) ==
    /\ obj[r].class = "rich"
    /\ Return(r, [op |-> "valueOf", val |-> valueOf(obj[r])])

(* toString() of the simpler variant *)
ToStringSimple(r) ==
    /\ obj[r].class = "simple"
    /\ Return(r, [op |-> "toString", arg |-> Undefined, val |-> SimpleToString(obj[r])])

(* Enter with a size that outlives the call, as one declared outside the *)
(* method would                                                          *)
EnterShared(r, call, size) ==
    /\ Idle
    /\ ret' = [ret EXCEPT ![r] = call @@ [pc |-> "loop", i |-> 0,
                   size |-> IF "size" \in DOMAIN ret[r] THEN ret[r].size ELSE size]]
    /\ UNCHANGED <<obj, made>>

(* a call on r enters its scaling loop with the locals size and i *)
Enter(r, call, size) ==
    /\ Idle
    /\ ret' = [ret EXCEPT ![r] = call @@ [pc |-> "loop", size |-> size, i |-> 0]]
    /\ UNCHANGED <<obj, made>>

(* Turn as  this.bytes /= base  would, the loop run on the field *)
TurnInPlace(r, base) ==
    /\ ret[r].pc = "loop"
    /\ NumGe(ret[r].size, NumFromInt(base))
    /\ ret' = [ret EXCEPT ![r].size = NumDiv(@, NumFromInt(base)), ![r].i = @ + 1]
    /\ obj' = [obj EXCEPT ![r].bytes = NumDiv(ret[r].size, NumFromInt(base))]
    /\ UNCHANGED made

(* one turn of  while (size >= base) { size /= base; i++; }  in the call on r *)
Turn(r, base) ==
    /\ ret[r].pc = "loop"
    /\ NumGe(ret[r].size, NumFromInt(base))
    /\ ret' = [ret EXCEPT ![r].size = NumDiv(@, NumFromInt(base)), ![r].i = @ + 1]
    /\ UNCHANGED <<obj, made>>

(* the loop of the call on r ends and the call returns the rendered text *)
Leave(r, base, arr) ==
    /\ ret[r].pc = "loop"
    /\ ~NumGe(ret[r].size, NumFromInt(base))
    /\ ret' = [ret EXCEPT ![r].pc = "done",
                          ![r].val = Render(ret[r].size, arr, ret[r].i)]
    /\ UNCHANGED <<obj, made>>

(* toFormattedString() *)
ToFormattedString(r) ==
    /\ obj[r].class = "simple"
    /\ Enter(r, [op |-> "toFormattedString", arg |-> Undefined, unit |-> "binary",
                 val |-> Undefined],
             obj[r].bytes)

ToFormattedStringLoop(r) ==
    /\ ret[r].op = "toFormattedString"
    /\ Turn(r, 1024)

ToFormattedStringReturn(r) ==
    /\ ret[r].op = "toFormattedString"
    /\ Leave(r, 1024, units)

(* toString() and toString(unit) of the richer variant *)
ToStringRich(r, arg) ==
    /\ obj[r].class = "rich"
    /\ Enter(r, [op |-> "toString", arg |-> arg,
                 unit |-> Default(arg, obj[r].preferredUnit), val |-> Undefined],
             obj[r].bytes)

ToStringLoop(r) ==
    /\ obj[r].class = "rich"
    /\ ret[r].op = "toString"
    /\ Turn(r, conversionFactor[ret[r].unit])

ToStringReturn(r) ==
    /\ obj[r].class = "rich"
    /\ ret[r].op = "toString"
    /\ Leave(r, conversionFactor[ret[r].unit], names[ret[r].unit])

----------------------------------------------------------------------------
(* The inputs: numbers around every power of the two bases up to MaxTier,   *)
(* small quantities, and the numbers construction does not reject.          *)

(* the numbers next below and next above a, for a finite a > 0: x is the *)
(* exponent of the last place there                                      *)
NumStep(a, x, by) == Fin(0, BAdd(BShl(a.m, a.e - x), <<by>>), x)

NumBack(a, x) == Fin(0, BSub(BShl(a.m, a.e - x), <<1>>), x)

LastPlace(a) == Max(BBitLen(a.m) + a.e - MantBits, MinExp)

NumPred(a) ==
    NumBack(a, IF a.m = <<1>> THEN Max(LastPlace(a) - 1, MinExp) ELSE LastPlace(a))

NumSucc(a) == NumStep(a, LastPlace(a), 1)

Ratio(n, d) == NumDiv(NumFromInt(n), NumFromInt(d))

MaxTier     == 10
MaxQuantity == 5

Powers == {NumPow(conversionFactor[u], k) : u \in Unit, k \in 0..MaxTier}

Around(p) == {NumPred(p), p, NumMul(Ratio(3, 2), p)}

(* 2^1020, the greatest power of 1024 that is a number; 2^930, whose       *)
(* products with the powers are numbers as great; and 524800 * 2^-1074,   *)
(* whose quotients by the powers underflow.  No object of +Infinity bytes *)
(* is made: the scaling loop of a call on one has no end.                 *)
Huge == Fin(0, <<1>>, 1020)
Large == Fin(0, <<1>>, 930)
Tiny == Fin(0, BFromNat(524800), MinExp)

Specials ==
    {NaN, Inf(1), Zero(0), Zero(1), Tiny, Huge,
     NumFromInt(-1), NumFromInt(-5000), NumFromInt(1536),
     Ratio(1, 8), Ratio(1005, 1000), Ratio(999995, 1000), Ratio(12345678, 100),
     NumPred(NumFromInt(1025000))}

ByteValues == UNION {Around(p) : p \in Powers} \cup Specials

Quantities ==
    {NumFromInt(n) : n \in 0..MaxQuantity}
        \cup {NumFromInt(19), Ratio(3, 2), Ratio(1, 10), Large, Tiny}

UnitArgs == Unit \cup {Undefined}

(* the constructions of an object for r, the factories of a named unit for *)
(* the units 1..tiers of each family                                       *)
Binds(r, values, quantities, tiers) ==
    \/ \E bytes \in values : NewSimple(r, bytes)
    \/ \E bytes \in quantities : FromBytess(r, bytes)
    \/ \E k \in 1..Min(tiers, 9), n \in quantities : FromSimple(r, k, n)
    \/ \E bytes \in values, unit \in UnitArgs : NewRich(r, bytes, unit)
    \/ \E bytes \in quantities, unit \in UnitArgs : FromBytes(r, bytes, unit)
    \/ \E k \in 1..Min(tiers, 8), n \in quantities : FromBinary(r, k, n)
    \/ \E k \in 1..Min(tiers, 8), n \in quantities : FromDecimal(r, k, n)

(* the steps of the scaling loops of the calls on r *)
Steps(r) ==
    \/ ToFormattedStringLoop(r)
    \/ ToFormattedStringReturn(r)
    \/ ToStringLoop(r)
    \/ ToStringReturn(r)

(* the calls on r, the getters of the units 1..tiers of each family *)
Calls(r, tiers) ==
    \/ \E k \in 1..Min(tiers, 9) : GetSimple(r, k)
    \/ \E k \in 1..Min(tiers, 8) : GetBinary(r, k)
    \/ \E k \in 1..Min(tiers, 8) : GetDecimal(r, k)
    \/ ValueOf(r)
    \/ ToStringSimple(r)
    \/ ToFormattedString(r)
    \/ \E arg \in UnitArgs : ToStringRich(r, arg)
    \/ Steps(r)

(* the assignments to the field bytes of r *)
Assigns(r, values) == \E bytes \in values : Assign(r, bytes)

AssignValues == {NumFromInt(1536), NumFromInt(1000000)}

(* one caller with one reference, and every unit *)
Next ==
    \/ Binds("a", ByteValues, Quantities, 9)
    \/ Calls("a", 9)
    \/ Assigns("a", AssignValues)

Spec == Init /\ [][Next]_vars

(* two references, to objects of few values and of the first units *)
PairTier == 2

PairValues == {NumFromInt(1024)}

PairQuantities == {NumFromInt(1)}

PairNext ==
    \E r \in Refs :
        \/ Binds(r, PairValues, PairQuantities, PairTier)
        \/ Calls(r, PairTier)
        \/ Assigns(r, PairValues)

PairSpec == Init /\ [][PairNext]_vars

----------------------------------------------------------------------------
(* The terms of the claims.  A power base^k and a quotient b / base^k are   *)
(* read as the numbers that the expressions base ** k and b / base ** k     *)
(* evaluate to.                                                             *)

(* r holds the result of a call of the scaled formatter *)
Formatted(r) ==
    /\ ret[r].pc = "done"
    /\ \/ ret[r].op = "toFormattedString"
       \/ ret[r].op = "toString" /\ obj[r].class = "rich"

(* the base and the unit-name table of the formatter call on r *)
Base(r) == conversionFactor[ret[r].unit]

Table(r) == IF obj[r].class = "simple" THEN units ELSE names[ret[r].unit]

(* base^k <= b < base^(k+1) *)
AtLeast(a, b) == NumEq(a, b) \/ NumLt(b, a)

InTier(b, base, k) == AtLeast(b, NumPow(base, k)) /\ NumLt(b, NumPow(base, k + 1))

(* 1 <= b < base^N for the N names of the table of the call on r *)
InTable(r) ==
    /\ AtLeast(obj[r].bytes, NumFromInt(1))
    /\ NumLt(obj[r].bytes, NumPow(Base(r), Len(Table(r))))

(* b divided by base k times in succession, each quotient rounded *)
RECURSIVE Divided(_, _, _)
Divided(b, base, k) ==
    IF k = 0 THEN b ELSE NumDiv(Divided(b, base, k - 1), NumFromInt(base))

(* |x - y| <= y / 2^bits, for finite x > 0 and y > 0 *)
WithinAt(x, y, bits, e) ==
    BCmp(BShl(IF BCmp(BShl(x.m, x.e - e), BShl(y.m, y.e - e)) >= 0
              THEN BSub(BShl(x.m, x.e - e), BShl(y.m, y.e - e))
              ELSE BSub(BShl(y.m, y.e - e), BShl(x.m, x.e - e)), bits),
         BShl(y.m, y.e - e)) <= 0

Within(x, y, bits) == WithinAt(x, y, bits, Min(x.e, y.e))

(* the text that the formatter call on r would return for the number x *)
TextOf(r, x) == NumberFormat(x) \o Text(" ") \o Element(Table(r), ret[r].i)

(* C1 as stated: for 1 <= b < base^N the scaled formatter picks the unit at   *)
(* the index k with base^k <= b < base^(k+1) and renders the number b/base^k. *)
C1Stated ==
    \A r \in Refs :
        Formatted(r) /\ InTable(r)
            => /\ ret[r].i < Len(Table(r))
               /\ InTier(obj[r].bytes, Base(r), ret[r].i)
               /\ ret[r].val = TextOf(r, NumDiv(obj[r].bytes, NumPow(Base(r), ret[r].i)))

(* C1 amended: for 1 <= b < base^N the scaled formatter picks the unit at the *)
(* index k with base^k <= b < base^(k+1), and renders the number left by      *)
(* dividing b by base k times in succession; that number is b / base^k when   *)
(* the base is 1024 and within one part in 2^49 of it when the base is 1000.  *)
C1Amended ==
    \A r \in Refs :
        Formatted(r) /\ InTable(r)
            => /\ ret[r].i < Len(Table(r))
               /\ InTier(obj[r].bytes, Base(r), ret[r].i)
               /\ ret[r].val = TextOf(r, Divided(obj[r].bytes, Base(r), ret[r].i))
               /\ Base(r) = 1024
                    => Divided(obj[r].bytes, 1024, ret[r].i)
                           = NumDiv(obj[r].bytes, NumPow(1024, ret[r].i))
               /\ Base(r) = 1000
                    => Within(Divided(obj[r].bytes, 1000, ret[r].i),
                              NumDiv(obj[r].bytes, NumPow(1000, ret[r].i)), 49)

(* 1024999.9999999999 bytes, of which the two divisions by 1000 leave        *)
(* 1.0249999999999997, are "1.02 MB"                                         *)
C1Witness ==
    /\ Formatted("a")
    /\ InTable("a")
    /\ obj["a"].bytes = NumPred(NumFromInt(1025000))
    /\ ret["a"].i = 2
    /\ ret["a"].val = Text("1.02 MB")

(* C2: the scaled formatter never returns a text built from a lookup past *)
(* the last name of the unit-name table.                                  *)
C2Stated == \A r \in Refs : Formatted(r) => ret[r].i < Len(Table(r))

(* a factory of a named unit made the object of r from a finite n >= 0 *)
MadeFrom(r) ==
    /\ made[r].op = "from"
    /\ IsFinite(made[r].n)
    /\ made[r].n.s = 0

(* r holds the result of the getter of the unit that the factory was of *)
ReadBackBy(r) ==
    /\ ret[r].pc = "done"
    /\ "k" \in DOMAIN ret[r]
    /\ ret[r].family = made[r].family
    /\ ret[r].k = made[r].k

FamilyBase(family) == IF family = "decimal" THEN 1000 ELSE 1024

(* n * base^exponent(U) for the unit U that the factory was of *)
Product(r) == NumMul(made[r].n, NumPow(FamilyBase(made[r].family), made[r].k))

(* C3 as stated: the object that the factory of a unit U makes from n >= 0 *)
(* holds n * base^exponent(U) bytes, and its accessor U gives n back.      *)
C3Stated ==
    \A r \in Refs :
        MadeFrom(r)
            => /\ obj[r].bytes = Product(r)
               /\ ReadBackBy(r) => ret[r].val = made[r].n

(* x is n, or the number next below or next above n *)
Nearest(x, n) ==
    \/ x = n
    \/ ~IsZero(n) /\ x \in {NumPred(n), NumSucc(n)}

(* C3 amended: the object that the factory of a unit U makes from a finite  *)
(* n >= 0 holds n * base^exponent(U) bytes; when that product is finite, its *)
(* accessor U gives n back for the units of base 1024 of both variants, and  *)
(* n or a number next to n for the units of base 1000.                       *)
C3Amended ==
    \A r \in Refs :
        MadeFrom(r)
            => /\ obj[r].bytes = Product(r)
               /\ ReadBackBy(r) /\ IsFinite(Product(r))
                    => IF made[r].family = "decimal"
                       THEN Nearest(ret[r].val, made[r].n)
                       ELSE ret[r].val = made[r].n

(* fromZettaBytes(19).zettaBytes is 19.000000000000004 *)
C3Witness ==
    /\ MadeFrom("a")
    /\ ReadBackBy("a")
    /\ made["a"].family = "decimal"
    /\ made["a"].k = 7
    /\ made["a"].n = NumFromInt(19)
    /\ ret["a"].val = NumSucc(NumFromInt(19))

(* r holds the result of a getter of an object of b >= 0 bytes *)
Read(r) ==
    /\ ret[r].pc = "done"
    /\ "k" \in DOMAIN ret[r]
    /\ ~IsNaN(obj[r].bytes)
    /\ obj[r].bytes.s = 0

(* C4: every named accessor returns b / base^exponent for its family and  *)
(* ordinal, for all b >= 0: b / 1024^k for kibiBytes..yobiBytes and for   *)
(* the chained kilobytes..brontobytes, b / 1000^k for kiloBytes..yottaBytes. *)
C4Stated ==
    \A r \in Refs :
        Read(r)
            => ret[r].val
                   = NumDiv(obj[r].bytes, NumPow(FamilyBase(ret[r].family), ret[r].k))

(* |x - h / 100| is at most half a hundredth and half a unit in the last *)
(* place of x, for a finite x > 0: in units of 2^t                       *)
HundredthsAt(x, h, t) ==
    BCmp(IF BCmp(BMulSmall(BShl(x.m, x.e - t), 100), BShl(h, -t)) >= 0
         THEN BSub(BMulSmall(BShl(x.m, x.e - t), 100), BShl(h, -t))
         ELSE BSub(BShl(h, -t), BMulSmall(BShl(x.m, x.e - t), 100)),
         BAdd(BShl(<<1>>, -1 - t), BMulSmall(BShl(<<1>>, LastPlace(x) - 1 - t), 100))) <= 0

Hundredths(x, h) == HundredthsAt(x, h, Min(LastPlace(x) - 1, -1))

(* the formatter call on r, on an object of the richer variant of b bytes *)
(* with the unit system unit, has returned text                           *)
Renders(r, b, unit, text) ==
    Formatted(r) /\ obj[r].class = "rich" /\ obj[r].bytes = NumFromInt(b) /\ ret[r].unit = unit
        => ret[r].val = Text(text)

(* C6: the scaled formatter renders the scaled value rounded to 2 fraction *)
(* digits at most, without trailing zeros, for every byte value within the *)
(* unit table: 1536 bytes are "1.5 KiB", 1024 bytes are "1.02 KB" in       *)
(* decimal, and base^k bytes are "1" and the unit k.                       *)
C6Rendering ==
    \A r \in Refs :
        /\ Formatted(r) /\ InTable(r)
             => /\ Hundredths(ret[r].size, Rounded(ret[r].size))
                /\ ret[r].val
                       = FixedText(BDivSmall(Rounded(ret[r].size), 100))
                             \o Text(" ") \o Table(r)[ret[r].i + 1]
                /\ \A k \in 0..(Len(Table(r)) - 1) :
                       obj[r].bytes = NumPow(Base(r), k)
                           => ret[r].val = Text("1 ") \o Table(r)[k + 1]
        /\ Renders(r, 1536, "binary", "1.5 KiB")
        /\ Renders(r, 1024, "decimal", "1.02 KB")
        /\ Renders(r, 1024, "binary", "1 KiB")
        /\ Renders(r, 1000000, "decimal", "1 MB")
        /\ Renders(r, 1048576, "binary", "1 MiB")

C6Witness ==
    /\ Formatted("a")
    /\ obj["a"].bytes = NumFromInt(1536)
    /\ ret["a"].val = Text("1.5 KiB")

(* r holds the result of a formatter call on an object of b < base bytes *)
BelowBase(r) == Formatted(r) /\ NumLt(obj[r].bytes, NumFromInt(Base(r)))

(* C7 as stated: for b < base the scaled formatter divides nothing, keeps  *)
(* the tier index 0 and returns b itself, a space and the zero-tier label. *)
C7Stated ==
    \A r \in Refs :
        BelowBase(r)
            => /\ ret[r].i = 0
               /\ ret[r].size = obj[r].bytes
               /\ ret[r].val = NumToString(obj[r].bytes) \o Text(" ") \o Table(r)[1]

(* b is a whole number, 0 <= b < n *)
WholeBelow(b, n) ==
    /\ IsFinite(b)
    /\ b.s = 0
    /\ b.e >= 0
    /\ NumLt(b, NumFromInt(n))

(* C7 amended: for b < base the scaled formatter divides nothing, keeps the *)
(* tier index 0 and returns b as the number formatter renders it, a space   *)
(* and the zero-tier label; that is b itself for a whole b, 0 <= b < 1000,  *)
(* and 0 formats as "0 B", "0 bytes" in the simpler variant, -0 as "-0 B", *)
(* "-0 bytes".                                                              *)
C7Amended ==
    \A r \in Refs :
        BelowBase(r)
            => /\ ret[r].i = 0
               /\ ret[r].size = obj[r].bytes
               /\ ret[r].val = NumberFormat(obj[r].bytes) \o Text(" ") \o Table(r)[1]
               /\ WholeBelow(obj[r].bytes, 1000)
                    => ret[r].val = NumToString(obj[r].bytes) \o Text(" ") \o Table(r)[1]
               /\ obj[r].bytes = Zero(0)
                    => ret[r].val = Text(IF obj[r].class = "rich" THEN "0 B" ELSE "0 bytes")
               /\ obj[r].bytes = Zero(1)
                    => ret[r].val = Text(IF obj[r].class = "rich" THEN "-0 B" ELSE "-0 bytes")

(* 0.125 bytes are "0.13 B" *)
C7Witness ==
    /\ BelowBase("a")
    /\ obj["a"].bytes = Ratio(1, 8)
    /\ ret["a"].val = Text("0.13 B")

(* C9 as stated: bytes is immutable after construction in the simpler      *)
(* variant, and in both variants no method changes an object: no step       *)
(* changes bytes of an object of the simpler variant, and no call of an     *)
(* accessor, valueOf, toString or toFormattedString changes bytes or the    *)
(* preferred unit system.                                                   *)
C9Stated ==
    [][\A r \in Refs :
           obj[r] # Null
               => /\ obj[r].class = "simple" => obj'[r].bytes = obj[r].bytes
                  /\ ret'[r].op # "assign" => obj'[r] = obj[r]]_vars

(* C9 amended: bytes is a public field that a caller can assign in both    *)
(* variants, and no method changes an object: no call of an accessor,       *)
(* valueOf, toString or toFormattedString changes bytes or the preferred    *)
(* unit system, which are those given at construction or, for bytes, by the *)
(* caller's last assignment; an assignment changes bytes alone.             *)
C9Amended ==
    [][\A r \in Refs :
           obj[r] # Null
               => /\ ret'[r].op # "assign" => obj'[r] = obj[r]
                  /\ obj'[r] = [obj[r] EXCEPT !.bytes = obj'[r].bytes]
                  /\ obj'[r] = made'[r].obj]_vars

(* a call on an object whose bytes the caller assigned has divided its *)
(* local size and returned, and the object is as assigned              *)
C9Witness ==
    /\ made["a"].op = "assign"
    /\ Formatted("a")
    /\ ret["a"].i = 1
    /\ ret["a"].size # obj["a"].bytes
    /\ obj["a"].bytes = NumFromInt(1536)

(* r holds the result of toString called with the argument arg *)
Told(r, arg) ==
    /\ Formatted(r)
    /\ ret[r].op = "toString"
    /\ ret[r].arg = arg

(* toString(unit) of the richer variant in one piece, for the bytes that the *)
(* unit table has a name for: the locals size and i when the loop ends, and  *)
(* the text returned                                                         *)
RECURSIVE Scale(_, _, _)
Scale(size, base, i) ==
    IF NumGe(size, NumFromInt(base))
    THEN Scale(NumDiv(size, NumFromInt(base)), base, i + 1)
    ELSE [size |-> size, i |-> i]

RenderScaled(sc, arr) == Render(sc.size, arr, sc.i)

toStringOf(this, unit) ==
    RenderScaled(Scale(this.bytes, conversionFactor[unit], 0), names[unit])

(* C5: toString() gives what toString(p) gives, p the preferred unit system *)
(* fixed at construction: 'binary' when the constructor or fromBytes is     *)
(* called without a unit and for the objects of fromKibiBytes ..            *)
(* fromYobiBytes, 'decimal' for those of fromKiloBytes .. fromYottaBytes;   *)
(* a unit argument overrides p for that call only.                          *)
C5Preferred ==
    \A r \in Refs :
        obj[r].class = "rich"
            => /\ made[r].op \in {"new", "fromBytes"} /\ made[r].unit = Undefined
                    => /\ obj[r].preferredUnit = "binary"
                       /\ Told(r, Undefined)
                            => ret[r].val = toStringOf(obj[r], "binary")
               /\ made[r].op \in {"new", "fromBytes"} /\ made[r].unit # Undefined
                    => obj[r].preferredUnit = made[r].unit
               /\ made[r].op = "from" => obj[r].preferredUnit = made[r].family
               /\ obj[r].preferredUnit = made[r].obj.preferredUnit
               /\ Told(r, Undefined)
                    => /\ ret[r].unit = obj[r].preferredUnit
                       /\ ret[r].val = toStringOf(obj[r], obj[r].preferredUnit)
               /\ \A u \in Unit :
                      Told(r, u)
                          => /\ ret[r].unit = u
                             /\ Table(r) = names[u]
                             /\ ret[r].val = toStringOf(obj[r], u)

(* toString() on the object of fromYottaBytes(1), which prefers 'decimal', *)
(* gives "1 YB"                                                            *)
C5Witness ==
    /\ obj["a"].class = "rich"
    /\ made["a"].op = "from"
    /\ made["a"].family = "decimal"
    /\ made["a"].k = 8
    /\ made["a"].n = NumFromInt(1)
    /\ Told("a", Undefined)
    /\ ret["a"].val = Text("1 YB")

(* r and q hold the results of the same operation, called with the same *)
(* arguments on two instances of the same variant with the same bytes   *)
SameCall(r, q) ==
    /\ obj[r] # Null
    /\ obj[r].class = obj[q].class
    /\ obj[r].bytes = obj[q].bytes
    /\ ret[r].pc = "done"
    /\ ret[q].pc = "done"
    /\ ret[r].op = ret[q].op
    /\ "arg" \in DOMAIN ret[r] => ret[r].arg = ret[q].arg

(* C8 as stated: on two instances with the same bytes, every accessor and   *)
(* every formatting operation called with the same arguments, none included, *)
(* returns the same result, whatever else differs and whatever was called.   *)
C8Stated == \A r, q \in Refs : SameCall(r, q) => ret[r].val = ret[q].val

(* C8 amended: ... returns the same result, whatever was called before,   *)
(* provided that for toString called without a unit the two instances     *)
(* have the same preferred unit system.                                   *)
C8Amended ==
    \A r, q \in Refs :
        /\ SameCall(r, q)
        /\ Told(r, Undefined) => obj[r].preferredUnit = obj[q].preferredUnit
        => ret[r].val = ret[q].val

(* two instances of 1024 bytes that prefer different unit systems give the *)
(* same kibiBytes                                                          *)
C8Witness ==
    /\ SameCall("a", "b")
    /\ obj["a"].class = "rich"
    /\ obj["a"].preferredUnit # obj["b"].preferredUnit
    /\ ret["a"].op = "kibiBytes"
    /\ ret["a"].val = NumFromInt(1)

(* the bytes of r do not exhaust the table of the call on r: not base^N or *)
(* more, for the N names of the table                                     *)
Named(r) == ~AtLeast(obj[r].bytes, NumPow(Base(r), Len(Table(r))))

(* the call on r has run its loop as often as the tier of b asks for, and *)
(* returned the text with a name of the table                             *)
Counted(r) ==
    /\ \A k \in 0..(Len(Table(r)) - 1) :
           InTier(obj[r].bytes, Base(r), k) => ret[r].i = k
    /\ NumLt(obj[r].bytes, NumFromInt(Base(r))) \/ IsNaN(obj[r].bytes) => ret[r].i = 0
    /\ ret[r].val = TextOf(r, ret[r].size)
    /\ Element(Table(r), ret[r].i) # Text(Undefined)

(* the scaling loop on r runs, on bytes other than +Infinity *)
Scaling(r) == ret[r].pc = "loop" /\ obj[r].bytes # Inf(0)

(* the most turns of the loop on a finite number: a finite number is below *)
(* 2^MaxTop, and 1024^102 = 2^1020 is the last power of either base that   *)
(* is one                                                                  *)
MostTurns == MaxTop \div 10

(* C10: for bytes that do not exhaust the table of names, negative and NaN  *)
(* bytes too, the formatter returns a value with a name of the table, its   *)
(* loop having run exactly k times when base^k <= bytes < base^(k+1) and not *)
(* at all when bytes < base or bytes is NaN; and the loop terminates for    *)
(* every finite bytes: it returns after MostTurns turns at the latest.      *)
C10Total ==
    \A r \in Refs :
        /\ Formatted(r) /\ Named(r) => Counted(r)
        /\ Scaling(r)
             => /\ ret[r].i <= MostTurns
                /\ ret[r].i = MostTurns
                     => ~NumGe(ret[r].size, NumFromInt(Base(r)))

(* the loop has run 102 times on 2^1020 bytes and has returned *)
C10Witness ==
    /\ Formatted("a")
    /\ obj["a"].bytes = Huge
    /\ ret["a"].i = MostTurns

(* r refers to an object of the simpler variant of b bytes, 0 <= b < 1024^9 *)
Twin(r) ==
    /\ obj[r].class = "simple"
    /\ AtLeast(obj[r].bytes, Zero(0))
    /\ NumLt(obj[r].bytes, NumPow(1024, 9))

(* the richer variant's object of the same bytes *)
TwinOf(r) == RichBytes(obj[r].bytes, "binary")

(* the loop of toFormattedString on r ended as that of toString('binary') *)
(* ends on the same bytes, and the two texts differ in the label only     *)
SameScaling(r, sc) ==
    /\ ret[r].i = sc.i
    /\ ret[r].size = sc.size
    /\ ret[r].val = NumberFormat(sc.size) \o Text(" ") \o units[sc.i + 1]
    /\ toStringOf(TwinOf(r), "binary")
           = NumberFormat(sc.size) \o Text(" ") \o names.binary[sc.i + 1]

(* C11: for 0 <= b < 1024^9 toFormattedString of the simpler variant and   *)
(* toString('binary') of the richer one run their loops equally often and  *)
(* render the same number, with the label of the same index; kilobytes ..  *)
(* yottabytes equal kibiBytes .. yobiBytes; only the index 9 has a name,   *)
(* 'BB', in the simpler table and none in the richer.                      *)
C11Stated ==
    \A r \in Refs :
        /\ Twin(r) /\ Formatted(r) => SameScaling(r, Scale(obj[r].bytes, 1024, 0))
        /\ Twin(r) /\ Read(r) /\ ret[r].k <= 8
             => ret[r].val = BinaryGet(TwinOf(r), ret[r].k)
        /\ Element(units, 9) = Text("BB") /\ Element(names.binary, 9) = Text(Undefined)
        /\ \A i \in 0..8 : Element(units, i) # Text(Undefined) /\ Element(names.binary, i) # Text(Undefined)

====
